---- MODULE Spec2Model ----
(***************************************************************************)
(* TodoTracker (src/todo.py): the line grammar of todo items, the          *)
(* modification-time parse cache, the dated log store and the REPL         *)
(* commands that mutate the current list.                                  *)
(*                                                                         *)
(* Text is a sequence of one-character strings.  Times are counted in      *)
(* clock ticks, TicksPerSec ticks to the second; time.time() returns the   *)
(* tick count, os.stat(f)[ST_MTIME] the tick count of the whole second in  *)
(* which the file was written (ST_MTIME by index is an integer).           *)
(***************************************************************************)
EXTENDS Integers, Sequences, FiniteSets, TLC

(* ------------------------------------------------------------------ *)
(* Results of operations that may raise                               *)
(* ------------------------------------------------------------------ *)
Ok(v) == [ok |-> TRUE, v |-> v]

Raise(e) == [ok |-> FALSE, err |-> e]

(* ------------------------------------------------------------------ *)
(* Python string primitives used by the parser                        *)
(* ------------------------------------------------------------------ *)
Whitespace == {" ", "\n", "\t"}

Digits == <<"0", "1", "2", "3", "4", "5", "6", "7", "8", "9">>

IsDigit(c) == \E k \in 1..10 : Digits[k] = c

DigitVal(c) == (CHOOSE k \in 1..10 : Digits[k] = c) - 1

RECURSIVE lstrip(_)
lstrip(s) ==
    IF Len(s) > 0 /\ Head(s) \in Whitespace THEN lstrip(Tail(s)) ELSE s

RECURSIVE rstrip(_)
rstrip(s) ==
    IF Len(s) > 0 /\ s[Len(s)] \in Whitespace
    THEN rstrip(SubSeq(s, 1, Len(s) - 1))
    ELSE s

strip(s) == rstrip(lstrip(s))

(* str.find: the first position at which sep occurs in s, 0 when absent *)
find(s, sep) ==
    LET hits == {k \in 1..(Len(s) - Len(sep) + 1) :
                    SubSeq(s, k, k + Len(sep) - 1) = sep}
    IN  IF hits = {} THEN 0 ELSE CHOOSE k \in hits : \A j \in hits : k <= j

(* s.split(sep, 1): one part when sep is absent, else the two parts *)
split1(s, sep) ==
    LET k == find(s, sep)
    IN  IF k = 0 THEN <<s>>
        ELSE <<SubSeq(s, 1, k - 1), SubSeq(s, k + Len(sep), Len(s))>>

RECURSIVE DigitsVal(_)
DigitsVal(s) ==
    IF Len(s) = 0 THEN 0
    ELSE 10 * DigitsVal(SubSeq(s, 1, Len(s) - 1)) + DigitVal(s[Len(s)])

(* int(s): surrounding whitespace and one sign are accepted *)
int_digits(negative, d) ==
    IF Len(d) = 0 \/ \E k \in 1..Len(d) : ~IsDigit(d[k])
    THEN Raise("ValueError")
    ELSE Ok(IF negative THEN 0 - DigitsVal(d) ELSE DigitsVal(d))

int_stripped(t) ==
    IF Len(t) > 0 /\ t[1] \in {"-", "+"}
    THEN int_digits(t[1] = "-", Tail(t))
    ELSE int_digits(FALSE, t)

int(s) == int_stripped(strip(s))

RECURSIVE NatStr(_)
NatStr(n) ==
    IF n < 10 THEN <<Digits[n + 1]>>
    ELSE NatStr(n \div 10) \o <<Digits[(n % 10) + 1]>>

(* "{}".format(n) for an integer n *)
IntStr(n) == IF n < 0 THEN <<"-">> \o NatStr(0 - n) ELSE NatStr(n)

(* s.rjust(w) *)
RECURSIVE rjust(_, _)
rjust(s, w) == IF Len(s) >= w THEN s ELSE rjust(<<" ">> \o s, w)

(* ------------------------------------------------------------------ *)
(* TodoItem                                                           *)
(* ------------------------------------------------------------------ *)
TodoItem(n, d, f, t) == [name |-> n, duration |-> d, finished |-> f, tag |-> t]

time(todo) == IF todo.finished THEN todo.duration ELSE 0

toggle_complete(todo) == [todo EXCEPT !.finished = ~todo.finished]

clone(todo) == TodoItem(todo.name, todo.duration, todo.finished, todo.tag)

set_duration(todo, duration) == [todo EXCEPT !.duration = duration]

(* TodoItem.__str__ *)
TodoStr(todo) ==
    LET tag_str == IF todo.tag # <<>> THEN <<"%">> \o todo.tag ELSE <<>>
        body == todo.name \o <<" ", "(">> \o IntStr(todo.duration)
                    \o <<"m", ")", " ">> \o tag_str
    IN  IF todo.finished THEN <<"D", "O", "N", "E", " ">> \o body ELSE body

(* ------------------------------------------------------------------ *)
(* Parsing                                                            *)
(* ------------------------------------------------------------------ *)
skip_char(c, line) ==
    IF Len(line) = 0 THEN Raise("Exception")
    ELSE IF line[1] # c THEN Raise("Exception")
    ELSE Ok(Tail(line))

RECURSIVE skip_string(_, _)
skip_string(s, line) ==
    IF Len(s) = 0 THEN Ok(line)
    ELSE LET r == skip_char(s[1], line)
         IN  IF r.ok THEN skip_string(Tail(s), r.v) ELSE r

skip_whitespace(line) == lstrip(line)

parse_time(time_str) ==
    IF Len(time_str) = 0 THEN Raise("IndexError")
    ELSE IF time_str[Len(time_str)] # "m" THEN Raise("AssertionError")
    ELSE int(SubSeq(time_str, 1, Len(time_str) - 1))

(* parse_todo_line, lines 160-168: the tag, and the item *)
parse_tag(done, todo_name, time_duration, line) ==
    IF ~time_duration.ok THEN time_duration
    ELSE IF Len(line) = 0
         THEN Ok(TodoItem(todo_name, time_duration.v, done, <<>>))
    ELSE IF line[1] # "%" THEN Raise("Exception")
    ELSE Ok(TodoItem(todo_name, time_duration.v, done, strip(Tail(line))))

(* parse_todo_line, lines 155-158: the duration *)
parse_duration(done, todo_name, spl) ==
    IF Len(spl) < 2 THEN Raise("IndexError")
    ELSE parse_tag(done, todo_name, parse_time(spl[1]), skip_whitespace(spl[2]))

(* parse_todo_line, lines 150-153: the name *)
parse_name(done, spl) ==
    IF Len(spl) < 2 THEN Raise("IndexError")
    ELSE parse_duration(done, rstrip(spl[1]), split1(spl[2], <<")">>))

(* parse_todo_line, lines 141-148: the optional DONE *)
parse_done(line, skipped) ==
    parse_name(skipped.ok,
               split1(skip_whitespace(IF skipped.ok THEN skipped.v ELSE line),
                      <<" ", "(">>))

parse_marker(line) == parse_done(line, skip_string(<<"D", "O", "N", "E">>, line))

parse_todo_line(text) ==
    IF ~skip_char("#", text).ok THEN skip_char("#", text)
    ELSE parse_marker(skip_whitespace(Tail(text)))

(* the first whitespace-delimited token of a line, <<>> when there is none *)
RECURSIVE TakeToken(_)
TakeToken(s) ==
    IF Len(s) = 0 \/ Head(s) \in Whitespace THEN <<>>
    ELSE <<Head(s)>> \o TakeToken(Tail(s))

FirstToken(line) == TakeToken(lstrip(line))

(* iterating an open file: the lines, each with its newline *)
RECURSIVE FileLines(_)
FileLines(content) ==
    IF Len(content) = 0 THEN <<>>
    ELSE LET k == find(content, <<"\n">>)
         IN  IF k = 0 THEN <<content>>
             ELSE <<SubSeq(content, 1, k)>>
                      \o FileLines(SubSeq(content, k + 1, Len(content)))

(* the loop body with a '###' that opens a comment and never closes one *)
read_line_never_closes(tok, line, in_comment, todos) ==
    IF Len(tok) = 0 THEN Ok([in_comment |-> in_comment, todos |-> todos])
    ELSE IF tok = <<"#", "#", "#">>
         THEN Ok([in_comment |-> TRUE, todos |-> todos])
    ELSE IF in_comment THEN Ok([in_comment |-> in_comment, todos |-> todos])
    ELSE IF tok = <<"#">>
         THEN (IF ~parse_todo_line(line).ok THEN parse_todo_line(line)
               ELSE Ok([in_comment |-> in_comment,
                        todos |-> Append(todos, parse_todo_line(line).v)]))
    ELSE Ok([in_comment |-> in_comment, todos |-> todos])

(* the loop body with the '#' test ahead of the in_comment test, and the
   items of a block comment parsed and dropped *)
read_line_parses_comments(tok, line, in_comment, todos) ==
    IF Len(tok) = 0 THEN Ok([in_comment |-> in_comment, todos |-> todos])
    ELSE IF tok = <<"#", "#", "#">>
         THEN Ok([in_comment |-> ~in_comment, todos |-> todos])
    ELSE IF tok = <<"#">>
         THEN (IF ~parse_todo_line(line).ok THEN parse_todo_line(line)
               ELSE Ok([in_comment |-> in_comment,
                        todos |-> IF in_comment THEN todos
                                  ELSE Append(todos, parse_todo_line(line).v)]))
    ELSE Ok([in_comment |-> in_comment, todos |-> todos])

(* one turn of the loop of read_todo_lines: what the line does to the
   comment flag and the list; the exception of parse_todo_line ends it *)
read_line(tok, line, in_comment, todos) ==
    IF Len(tok) = 0 THEN Ok([in_comment |-> in_comment, todos |-> todos])
    ELSE IF tok = <<"#", "#", "#">>
         THEN Ok([in_comment |-> ~in_comment, todos |-> todos])
    ELSE IF in_comment THEN Ok([in_comment |-> in_comment, todos |-> todos])
    ELSE IF tok = <<"#">>
         THEN (IF ~parse_todo_line(line).ok THEN parse_todo_line(line)
               ELSE Ok([in_comment |-> in_comment,
                        todos |-> Append(todos, parse_todo_line(line).v)]))
    ELSE Ok([in_comment |-> in_comment, todos |-> todos])

RECURSIVE read_lines_from(_, _)
read_lines_from(lines, st) ==
    IF ~st.ok THEN st
    ELSE IF Len(lines) = 0 THEN Ok(st.v.todos)
    ELSE read_lines_from(Tail(lines),
                         read_line(FirstToken(Head(lines)), Head(lines),
                                   st.v.in_comment, st.v.todos))

read_todo_lines(lines) ==
    read_lines_from(lines, Ok([in_comment |-> FALSE, todos |-> <<>>]))

(* ------------------------------------------------------------------ *)
(* Serialisation                                                      *)
(* ------------------------------------------------------------------ *)
RECURSIVE serialize_from(_, _, _)
serialize_from(todos, idx, repl) ==
    IF Len(todos) = 0 THEN <<>>
    ELSE (IF repl
          THEN rjust(<<"(">> \o IntStr(idx) \o <<")", " ">>, 5)
          ELSE <<>>)
         \o <<"#", " ">> \o TodoStr(Head(todos)) \o <<"\n">>
         \o serialize_from(Tail(todos), idx + 1, repl)

serialize_todos(todos, repl) == serialize_from(todos, 0, repl)


(* ------------------------------------------------------------------ *)
(* Bounds of the model                                                *)
(* ------------------------------------------------------------------ *)
TicksPerSec == 2

MaxClock == 2

MaxDay == 2

MaxFetch == 3

MaxLines == 3

(* ------------------------------------------------------------------ *)
(* State                                                              *)
(* ------------------------------------------------------------------ *)
VARIABLES
    fs,                 \* the working directory: file -> [content, mtime]
    parsed_file_cache,  \* file -> [time, todos]
    cache_stats,        \* [hits, misses]
    clock,              \* wall clock, in ticks
    today,              \* datetime.date.today(), as a day number
    pc,                 \* "stopped", "main" (main() has saved), "repl", "exited"
    out,                \* what the last operation printed, raised and wrote
    arg                 \* codec, save, tag and parser runs: the input
                        \* under test; cache runs: file -> tick of its
                        \* touch, for the files touched since they were
                        \* last fetched

vars == <<fs, parsed_file_cache, cache_stats, clock, today, pc, out, arg>>

Master == <<"master", 0>>

NoFile == <<"none", 0>>

(* get_log_filename for the day d *)
LogFile(d) == <<"log", d>>

get_log_filename == LogFile(today)

Put(fn, k, v) == [x \in DOMAIN fn \cup {k} |-> IF x = k THEN v ELSE fn[x]]

Remove(fn, k) == [x \in DOMAIN fn \ {k} |-> fn[x]]

EmptyMap == [x \in {} |-> 0]

NoStats == [hits |-> 0, misses |-> 0]

(* os.stat(f)[stat.ST_MTIME] of a file written now: whole seconds *)
MtimeNow == (clock \div TicksPerSec) * TicksPerSec

(* open(f, 'a') in place of open(f, 'w') *)
AppendFile(files, f, text) ==
    Put(files, f, [content |-> (IF f \in DOMAIN files THEN files[f].content
                                ELSE <<>>) \o text,
                   mtime |-> MtimeNow])

(* open(f, 'w'); write(text): the file holds text and nothing else *)
WriteFile(files, f, text) ==
    Put(files, f, [content |-> text, mtime |-> MtimeNow])

(* ------------------------------------------------------------------ *)
(* Parse cache                                                        *)
(* ------------------------------------------------------------------ *)
(* clear_file_in_cache that forgets to delete *)
clear_nothing(cache, f) == cache

clear_file_in_cache(cache, f) ==
    IF f \in DOMAIN cache THEN Remove(cache, f) ELSE cache

reset_file_cache == EmptyMap

(* the counters are capped: no fetch once they add up to MaxFetch *)
CanFetch == cache_stats.hits + cache_stats.misses < MaxFetch

(* read_todo_file.inner: parse the file as it is on disk *)
inner(f) == read_todo_lines(FileLines(fs[f].content))

(* line 89 with >= for > *)
FileIsNotOlder(file_update_time, last_parse_time) ==
    file_update_time >= last_parse_time

(* the test of line 89 *)
FileIsNewer(file_update_time, last_parse_time) ==
    file_update_time > last_parse_time

IsMiss(f) ==
    \/ f \notin DOMAIN parsed_file_cache
    \/ FileIsNewer(fs[f].mtime, parsed_file_cache[f].time)

(* cache_fetch_or_calculate(f, inner): the value returned or the exception
   raised, the cache and the counters afterwards, and how often func ran *)
(* lines 80-84 and 90-94: func has run; store what it returned *)
(* lines 83 and 93 left out: a miss that is not counted *)
cache_store_uncounted(f, update_time, parsed_file) ==
    IF ~parsed_file.ok
    THEN [res |-> parsed_file, cache |-> parsed_file_cache,
          stats |-> cache_stats, miss |-> TRUE, calls |-> 1]
    ELSE [res |-> parsed_file,
          cache |-> Put(parsed_file_cache, f,
                        [time |-> update_time, todos |-> parsed_file.v]),
          stats |-> cache_stats, miss |-> TRUE, calls |-> 1]

cache_store(f, update_time, parsed_file) ==
    IF ~parsed_file.ok
    THEN [res |-> parsed_file, cache |-> parsed_file_cache,
          stats |-> cache_stats, miss |-> TRUE, calls |-> 1]
    ELSE [res |-> parsed_file,
          cache |-> Put(parsed_file_cache, f,
                        [time |-> update_time, todos |-> parsed_file.v]),
          stats |-> [cache_stats EXCEPT !.misses = @ + 1],
          miss |-> TRUE, calls |-> 1]

cache_fetch_or_calculate(f) ==
    IF IsMiss(f) THEN cache_store(f, clock, inner(f))
    ELSE [res |-> Ok(parsed_file_cache[f].todos), cache |-> parsed_file_cache,
          stats |-> [cache_stats EXCEPT !.hits = @ + 1],
          miss |-> FALSE, calls |-> 0]

read_todo_file(f) == cache_fetch_or_calculate(f)

(* the file read_todo_file_if_exists(f, backup_f) settles on *)
FileToRead(f, backup_f) == IF f \in DOMAIN fs THEN f ELSE backup_f

(* read_cur_todo_log(master): the file read, and the read's outcome *)
CurFile == FileToRead(get_log_filename, Master)

read_cur_todo_log == read_todo_file(CurFile)

(* ------------------------------------------------------------------ *)
(* Aggregation                                                        *)
(* ------------------------------------------------------------------ *)
(* sum(...) over the first n of a sequence of numbers *)
RECURSIVE sum_first(_, _)
sum_first(xs, n) == IF n = 0 THEN 0 ELSE sum_first(xs, n - 1) + xs[n]

sum(xs) == sum_first(xs, Len(xs))

is_done(todo) == todo.finished

(* calc_percentage: the two quotients as [n, d], or ZeroDivisionError *)
percentages(total_items, completed_items, total_time, completed_time) ==
    IF total_items = 0 \/ total_time = 0 THEN Raise("ZeroDivisionError")
    ELSE Ok([tasks_pct |-> [n |-> completed_items * 100, d |-> total_items],
             time_pct |-> [n |-> completed_time * 100, d |-> total_time]])

calc_percentage(todos) ==
    percentages(Len(todos),
                sum([k \in 1..Len(todos) |-> IF is_done(todos[k]) THEN 1 ELSE 0]),
                sum([k \in 1..Len(todos) |-> todos[k].duration]),
                sum([k \in 1..Len(todos) |-> time(todos[k])]))

(* print_todos: the exception it ends with, "none" when it returns *)
print_todos(todos) ==
    IF calc_percentage(todos).ok THEN "none" ELSE calc_percentage(todos).err


(* calc_time: completed and total minutes of one list *)
calc_time(todos) ==
    [completed |-> sum([k \in 1..Len(todos) |-> time(todos[k])]),
     total |-> sum([k \in 1..Len(todos) |-> todos[k].duration])]

(* get_last_seven_days_filenames: the logs of today - 6 .. today, in order *)
get_last_seven_days_filenames == [k \in 1..7 |-> LogFile(today - (7 - k))]

(* read_todo_file_if_exists(f) of the k-th of them, which exists *)
week_read(k) == read_todo_file(get_last_seven_days_filenames[k])

(* line 347, "if read": the truth value of the list that was read *)
read_is_true(read) == Len(read) > 0

(* read_last_weeks_logs from the k-th file on: the lists yielded, or the
   exception of the first read that raises *)
RECURSIVE read_last_weeks_logs_from(_)
read_last_weeks_logs_from(k) ==
    IF k > 7 THEN Ok(<<>>)
    ELSE IF get_last_seven_days_filenames[k] \notin DOMAIN fs
         THEN read_last_weeks_logs_from(k + 1)
    ELSE IF ~week_read(k).res.ok THEN week_read(k).res
    ELSE IF ~read_last_weeks_logs_from(k + 1).ok
         THEN read_last_weeks_logs_from(k + 1)
    ELSE Ok((IF read_is_true(week_read(k).res.v)
             THEN <<week_read(k).res.v>> ELSE <<>>)
                \o read_last_weeks_logs_from(k + 1).v)

read_last_weeks_logs == read_last_weeks_logs_from(1)

(* calc_time_in_range: the sums over the lists, and how many lists *)
calc_time_in_range(todo_logs) ==
    [completed |-> sum([k \in 1..Len(todo_logs) |-> calc_time(todo_logs[k]).completed]),
     total |-> sum([k \in 1..Len(todo_logs) |-> calc_time(todo_logs[k]).total]),
     days |-> Len(todo_logs)]

calc_last_week_time ==
    IF ~read_last_weeks_logs.ok THEN read_last_weeks_logs
    ELSE Ok(calc_time_in_range(read_last_weeks_logs.v))

(* the files calc_last_week_time fetches: those of the seven that exist,
   up to the first whose read raises *)
week_fetched ==
    {k \in 1..7 :
        /\ get_last_seven_days_filenames[k] \in DOMAIN fs
        /\ \A j \in 1..(k - 1) :
              get_last_seven_days_filenames[j] \in DOMAIN fs => week_read(j).res.ok}

(* the cache after those fetches: each is of another file and leaves its
   own entry *)
week_cache ==
    [f \in DOMAIN parsed_file_cache
            \cup {get_last_seven_days_filenames[k] :
                     k \in {j \in week_fetched : week_read(j).res.ok}} |->
        IF \E k \in week_fetched :
              get_last_seven_days_filenames[k] = f /\ week_read(k).res.ok
        THEN read_todo_file(f).cache[f]
        ELSE parsed_file_cache[f]]

(* the counters after those fetches *)
week_stats ==
    [hits |-> cache_stats.hits
                + Cardinality({k \in week_fetched : ~week_read(k).miss}),
     misses |-> cache_stats.misses
                + Cardinality({k \in week_fetched :
                                  week_read(k).miss /\ week_read(k).res.ok})]

(* print_week_time: the exception it ends with, "none" when it returns *)
print_week_time(res) ==
    IF ~res.ok THEN res.err
    ELSE IF res.v.days = 0 THEN "ZeroDivisionError" ELSE "none"

(* "[untagged]", the key of the items without a tag *)
Untagged == <<"[", "u", "n", "t", "a", "g", "g", "e", "d", "]">>

(* gather_tags, lines 402-405: the key an item is counted under *)
tag_key(todo) == IF todo.tag = <<>> THEN Untagged ELSE todo.tag

(* lines 406-410: the two tables after the item is counted under tag *)
count_under(tbl, tag, todo) ==
    [cnt |-> Put(tbl.cnt, tag,
                 (IF tag \in DOMAIN tbl.cnt THEN tbl.cnt[tag] ELSE 0) + 1),
     time |-> Put(tbl.time, tag,
                  (IF tag \in DOMAIN tbl.time THEN tbl.time[tag] ELSE 0)
                      + todo.duration)]

(* the loop body without lines 400-401: unfinished items are counted too *)
gather_any(tbl, todo) == count_under(tbl, tag_key(todo), todo)

(* one turn of the loop of gather_tags *)
gather_one(tbl, todo) ==
    IF ~is_done(todo) THEN tbl ELSE count_under(tbl, tag_key(todo), todo)

RECURSIVE gather_from(_, _)
gather_from(todos, tbl) ==
    IF Len(todos) = 0 THEN tbl
    ELSE gather_from(Tail(todos), gather_one(tbl, Head(todos)))

gather_tags(todos) == gather_from(todos, [cnt |-> EmptyMap, time |-> EmptyMap])

(* ------------------------------------------------------------------ *)
(* Python list operations used by the commands                        *)
(* ------------------------------------------------------------------ *)
(* the 1-based position todos[idx] names; outside 1..Len: IndexError *)
ListPos(todos, idx) == IF idx >= 0 THEN idx + 1 ELSE Len(todos) + idx + 1

ValidIndex(todos, idx) == ListPos(todos, idx) \in 1..Len(todos)

(* todos.insert(i, x): i counts from the end when negative, and is clamped *)
insert_at(n, i) ==
    IF i < 0 THEN (IF i + n < 0 THEN 0 ELSE i + n) ELSE (IF i > n THEN n ELSE i)

list_insert(todos, i, x) ==
    SubSeq(todos, 1, insert_at(Len(todos), i)) \o <<x>>
        \o SubSeq(todos, insert_at(Len(todos), i) + 1, Len(todos))

list_del(todos, p) == SubSeq(todos, 1, p - 1) \o SubSeq(todos, p + 1, Len(todos))

(* ------------------------------------------------------------------ *)
(* The functions the commands hand to todo_op                         *)
(* ------------------------------------------------------------------ *)
toggle_item(todos, idx) ==
    IF ~ValidIndex(todos, idx) THEN Raise("IndexError")
    ELSE Ok([todos EXCEPT ![ListPos(todos, idx)] = toggle_complete(@)])

set_time(todos, idx, dur) ==
    IF ~ValidIndex(todos, idx) THEN Raise("IndexError")
    ELSE Ok([todos EXCEPT ![ListPos(todos, idx)] = set_duration(@, dur)])

duplicate(todos, idx) ==
    IF ~ValidIndex(todos, idx) THEN Raise("IndexError")
    ELSE Ok(list_insert(todos, idx + 1, clone(todos[ListPos(todos, idx)])))

delete_todo_item(todos, idx) ==
    IF ~ValidIndex(todos, idx) THEN Raise("IndexError")
    ELSE Ok(list_del(todos, ListPos(todos, idx)))

(* new_todo_item: the text after the keyword and one space is parsed and
   the item appended; line is the command line as typed, op its keyword *)
new_todo_item(todos, op, line) ==
    IF Len(split1(line, op \o <<" ">>)) < 2 THEN Raise("IndexError")
    ELSE IF ~parse_todo_line(split1(line, op \o <<" ">>)[2]).ok
         THEN parse_todo_line(split1(line, op \o <<" ">>)[2])
    ELSE Ok(Append(todos, parse_todo_line(split1(line, op \o <<" ">>)[2]).v))

(* cmd_table: the function of a command applied to the list and the
   converted parameters; line is the command line as typed *)
ApplyCmd(op, todos, a, line) ==
    CASE op = "toggle-complete" -> toggle_item(todos, a[1])
      [] op = "set-time" -> set_time(todos, a[1], a[2])
      [] op = "duplicate" -> duplicate(todos, a[1])
      [] op = "delete" -> delete_todo_item(todos, a[1])
      [] op = "new" -> new_todo_item(todos, FirstToken(line), line)

(* a func that appends a placeholder before it raises *)
list_written_before_raise(op, todos) == Append(todos, TodoItem(<<>>, 0, FALSE, <<>>))

(* the list object as a func that raised has left it: todos[idx], the
   split and parse_todo_line all raise before the func's first write *)
list_at_raise(op, todos) == todos

(* params = (int(p) for p in params), unpacked at the call *)
IntParams(params) ==
    IF \E k \in 1..Len(params) : ~int(params[k]).ok THEN Raise("ValueError")
    ELSE Ok([k \in 1..Len(params) |-> int(params[k]).v])

(* ------------------------------------------------------------------ *)
(* Inputs                                                             *)
(* ------------------------------------------------------------------ *)
(* "# a (1m)" *)
LineA == <<"#", " ", "a", " ", "(", "1", "m", ")", "\n">>

(* "# DONE DONEa (2m) %t": a finished item whose name is DONEa *)
LineD ==
    <<"#", " ", "D", "O", "N", "E", " ", "D", "O", "N", "E", "a", " ",
      "(", "2", "m", ")", " ", "%", "t", "\n">>

(* the master files tried: empty, one item, two items, a finished item *)
MasterFiles == {<<>>, LineA, LineA \o LineD, LineD}

(* index parameters as typed: negative, in range or not, not a number *)
IdxTokens == {IntStr(i) : i \in {-1, 0, 1, 3}} \cup {<<"x">>}

(* ------------------------------------------------------------------ *)
(* The program                                                        *)
(* ------------------------------------------------------------------ *)
NoOut == [op |-> "none", err |-> "none", todos |-> <<>>, file |-> NoFile]

Init ==
    /\ fs \in {[f \in {Master} |-> [content |-> c, mtime |-> 0]] : c \in MasterFiles}
    /\ parsed_file_cache = EmptyMap
    /\ cache_stats = NoStats
    /\ clock = 0
    /\ today = 0
    /\ pc = "stopped"
    /\ out = NoOut
    /\ arg = <<>>

(* save_todo_log(todos), given the cache as the command left it *)
save_todo_log(cache, todos) ==
    LET f == get_log_filename
    IN  [cache |-> clear_file_in_cache(cache, f),
         fs |-> WriteFile(fs, f, serialize_todos(todos, FALSE)),
         file |-> f]

(* the process ends: its cache and counters go with it *)
Exit(op, err, todos, file) ==
    /\ pc' = "exited"
    /\ parsed_file_cache' = EmptyMap
    /\ cache_stats' = NoStats
    /\ out' = [op |-> op, err |-> err, todos |-> todos, file |-> file]

(* main: read the current list, save it as today's log *)
Main ==
    /\ pc = "stopped"
    /\ \E rd \in {read_cur_todo_log} :
         IF ~rd.res.ok
         THEN /\ Exit("main", rd.res.err, <<>>, NoFile)
              /\ UNCHANGED fs
         ELSE \E sv \in {save_todo_log(rd.cache, rd.res.v)} :
                /\ fs' = sv.fs
                /\ parsed_file_cache' = sv.cache
                /\ cache_stats' = rd.stats
                /\ pc' = "main"
                /\ out' = [op |-> "main", err |-> "none",
                           todos |-> rd.res.v, file |-> sv.file]
    /\ UNCHANGED <<clock, today, arg>>

(* repl, up to the first prompt: print the current list, outside the try *)
ReplStart ==
    /\ pc = "main"
    /\ \E rd \in {read_cur_todo_log} :
         IF ~rd.res.ok THEN Exit("start", rd.res.err, <<>>, NoFile)
         ELSE \E err \in {print_todos(rd.res.v)} :
                IF err # "none" THEN Exit("start", err, rd.res.v, NoFile)
                ELSE /\ parsed_file_cache' = rd.cache
                     /\ cache_stats' = rd.stats
                     /\ pc' = "repl"
                     /\ out' = [op |-> "start", err |-> "none",
                                todos |-> rd.res.v, file |-> NoFile]
    /\ UNCHANGED <<fs, clock, today, arg>>

(* a command that raised before it changed the list *)
Failed(op, err, cache, stats) ==
    /\ parsed_file_cache' = cache
    /\ cache_stats' = stats
    /\ out' = [op |-> op, err |-> err, todos |-> <<>>, file |-> NoFile]
    /\ UNCHANGED fs

(* the list command *)
List ==
    /\ pc = "repl"
    /\ CanFetch
    /\ \E rd \in {read_cur_todo_log} :
         IF ~rd.res.ok THEN Failed("list", rd.res.err, rd.cache, rd.stats)
         ELSE /\ parsed_file_cache' = rd.cache
              /\ cache_stats' = rd.stats
              /\ out' = [op |-> "list", err |-> print_todos(rd.res.v),
                         todos |-> rd.res.v, file |-> NoFile]
              /\ UNCHANGED fs
    /\ UNCHANGED <<clock, today, pc, arg>>

(* todo_op, lines 462-464: func has changed the list in place; the list is
   the cache's own list object, so the change shows in the cache entry of
   the file that was read; then save and print *)
Changed(op, rd, todos) ==
    \E sv \in {save_todo_log([rd.cache EXCEPT ![CurFile].todos = todos], todos)} :
        /\ fs' = sv.fs
        /\ parsed_file_cache' = sv.cache
        /\ cache_stats' = rd.stats
        /\ out' = [op |-> op, err |-> print_todos(todos),
                   todos |-> todos, file |-> sv.file]

(* todo_op(num_params, func)(params); line is the command line, which
   new_todo_item reads; params are converted only when num_params is not 0,
   and then at the call of func, after the list was read *)
todo_op(op, num_params, params, line) ==
    /\ pc = "repl"
    /\ CanFetch
    /\ IF num_params # 0 /\ Len(params) # num_params
       THEN Failed(op, "Exception", parsed_file_cache, cache_stats)
       ELSE \E rd \in {read_cur_todo_log} :
              IF ~rd.res.ok THEN Failed(op, rd.res.err, rd.cache, rd.stats)
              ELSE \E a \in {IF num_params # 0 THEN IntParams(params) ELSE Ok(<<>>)} :
                     IF ~a.ok THEN Failed(op, a.err, rd.cache, rd.stats)
                     ELSE \E m \in {ApplyCmd(op, rd.res.v, a.v, line)} :
                            IF ~m.ok
                            THEN Failed(op, m.err,
                                        [rd.cache EXCEPT ![CurFile].todos =
                                            list_at_raise(op, rd.res.v)],
                                        rd.stats)
                            ELSE Changed(op, rd, m.v)
    /\ UNCHANGED <<clock, today, pc, arg>>

ToggleComplete(params) == todo_op("toggle-complete", 1, params, <<>>)

SetTime(params) == todo_op("set-time", 2, params, <<>>)

Duplicate(params) == todo_op("duplicate", 1, params, <<>>)

Delete(params) == todo_op("delete", 1, params, <<>>)

(* the new command; the words after the keyword are not counted *)
New(line) == todo_op("new", 0, <<>>, line)

(* the quit command: sys.exit() *)
Quit ==
    /\ pc = "repl"
    /\ Exit("quit", "SystemExit", <<>>, NoFile)
    /\ UNCHANGED <<fs, clock, today, arg>>

(* midnight passes: the date changes and the clock is at a later second *)
DayChange ==
    /\ today < MaxDay
    /\ today' = today + 1
    /\ clock' = ((clock \div TicksPerSec) + 1) * TicksPerSec
    /\ UNCHANGED <<fs, parsed_file_cache, cache_stats, pc, out, arg>>

OneParam == {<<t>> : t \in IdxTokens} \cup {<<>>}

TwoParams ==
    {<<t, <<"0">>>> : t \in IdxTokens}
        \cup {<<<<"0">>, <<"x">>>>, <<<<"0">>>>, <<<<"0">>, <<"-", "1">>>>}

(* "new " and the text typed after it *)
NewCmd(text) == <<"n", "e", "w", " ">> \o text

(* "b (2m) %t": the stored-item grammar without the leading '#' *)
TextB == <<"b", " ", "(", "2", "m", ")", " ", "%", "t">>

(* new command lines: an item without its '#', with it, with a negative
   duration, an item line cut short, and the keyword alone *)
NewLines ==
    { NewCmd(TextB), NewCmd(<<"#", " ">> \o TextB),
      NewCmd(<<"#", " ", "b", " ", "(", "-", "1", "m", ")">>),
      NewCmd(<<"#", " ", "b">>), <<"n", "e", "w">> }

Next ==
    \/ Main
    \/ ReplStart
    \/ List
    \/ \E params \in OneParam : ToggleComplete(params)
    \/ \E params \in TwoParams : SetTime(params)
    \/ \E params \in OneParam : Duplicate(params)
    \/ \E params \in OneParam : Delete(params)
    \/ \E line \in NewLines : New(line)
    \/ Quit
    \/ DayChange

Spec == Init /\ [][Next]_vars


(* ------------------------------------------------------------------ *)
(* The cache on its own: fetches, touches, invalidations, the clock   *)
(* ------------------------------------------------------------------ *)
CacheFiles == {Master, LogFile(0)}

InitCache ==
    /\ fs = [f \in CacheFiles |->
                [content |-> IF f = Master THEN LineA \o LineD ELSE <<"#", "\n">>,
                 mtime |-> 0]]
    /\ parsed_file_cache = EmptyMap
    /\ cache_stats = NoStats
    /\ clock = 0
    /\ today = 0
    /\ pc = "cache"
    /\ out = [op |-> "none", f |-> NoFile, miss |-> FALSE, calls |-> 0,
              res |-> Ok(<<>>)]
    /\ arg = EmptyMap

(* read_todo_file(f) *)
Fetch(f) ==
    /\ CanFetch
    /\ \E r \in {read_todo_file(f)} :
         /\ parsed_file_cache' = r.cache
         /\ cache_stats' = r.stats
         /\ out' = [op |-> "fetch", f |-> f, miss |-> r.miss,
                    calls |-> r.calls, res |-> r.res]
    /\ arg' = Remove(arg, f)
    /\ UNCHANGED <<fs, clock, today, pc>>

(* the file's modification time is set to the current time *)
Touch(f) ==
    /\ fs' = [fs EXCEPT ![f].mtime = MtimeNow]
    /\ arg' = Put(arg, f, clock)
    /\ out' = [op |-> "touch", f |-> f, miss |-> FALSE, calls |-> 0,
               res |-> Ok(<<>>)]
    /\ UNCHANGED <<parsed_file_cache, cache_stats, clock, today, pc>>

ClearFile(f) ==
    /\ parsed_file_cache' = clear_file_in_cache(parsed_file_cache, f)
    /\ out' = [op |-> "clear", f |-> f, miss |-> FALSE, calls |-> 0,
               res |-> Ok(<<>>)]
    /\ UNCHANGED <<fs, cache_stats, clock, today, pc, arg>>

ResetCache ==
    /\ parsed_file_cache' = reset_file_cache
    /\ out' = [op |-> "reset", f |-> NoFile, miss |-> FALSE, calls |-> 0,
               res |-> Ok(<<>>)]
    /\ UNCHANGED <<fs, cache_stats, clock, today, pc, arg>>

(* time passes *)
Tick ==
    /\ clock < MaxClock
    /\ clock' = clock + 1
    /\ UNCHANGED <<fs, parsed_file_cache, cache_stats, today, pc, out, arg>>

NextCache ==
    \/ \E f \in CacheFiles : Fetch(f)
    \/ \E f \in CacheFiles : Touch(f)
    \/ \E f \in CacheFiles : ClearFile(f)
    \/ ResetCache
    \/ Tick

SpecCache == InitCache /\ [][NextCache]_vars

(* ------------------------------------------------------------------ *)
(* The codec on its own: render an item, parse the line               *)
(* ------------------------------------------------------------------ *)
CodecNames ==
    { <<"a">>, <<"a", " ", "b">>, <<"a", "(", "b", ")">>,
      <<"D", "O", "N", "E", "a">>, <<"D", "O", "N", "E", " ", "a">>,
      <<"a", " ", "(", "b">>, <<"a", " ">> }

CodecItems ==
    {TodoItem(n, d, f, t) : n \in CodecNames, d \in {-1, 0, 12},
                            f \in BOOLEAN, t \in {<<>>, <<"t">>}}

InitCodec ==
    /\ fs = EmptyMap
    /\ parsed_file_cache = EmptyMap
    /\ cache_stats = NoStats
    /\ clock = 0
    /\ today = 0
    /\ pc = "render"
    /\ out = [line |-> <<>>, parsed |-> Raise("none")]
    /\ arg \in CodecItems

(* the line serialize_todos writes for the item *)
Render ==
    /\ pc = "render"
    /\ out' = [out EXCEPT !.line = <<"#", " ">> \o TodoStr(arg)]
    /\ pc' = "parse"
    /\ UNCHANGED <<fs, parsed_file_cache, cache_stats, clock, today, arg>>

Parse ==
    /\ pc = "parse"
    /\ out' = [out EXCEPT !.parsed = parse_todo_line(out.line)]
    /\ pc' = "parsed"
    /\ UNCHANGED <<fs, parsed_file_cache, cache_stats, clock, today, arg>>

NextCodec == Render \/ Parse

SpecCodec == InitCodec /\ [][NextCodec]_vars

(* ------------------------------------------------------------------ *)
(* Saving on its own: save(items); x = read_cur_todo_log; save(x)     *)
(* ------------------------------------------------------------------ *)
(* items the program holds after parsing LineA, LineD or "# b (0m) %t"
   and toggling none, some or all of them *)
SaveItems ==
    { TodoItem(<<"a">>, 1, FALSE, <<>>), TodoItem(<<"a">>, 1, TRUE, <<>>),
      TodoItem(<<"D", "O", "N", "E", "a">>, 2, TRUE, <<"t">>),
      TodoItem(<<"D", "O", "N", "E", "a">>, 2, FALSE, <<"t">>),
      TodoItem(<<"b">>, 0, FALSE, <<"t">>), TodoItem(<<"b">>, 0, TRUE, <<"t">>) }

SaveInputs == UNION {[1..n -> SaveItems] : n \in 0..2}

InitSave ==
    /\ fs = [f \in {Master} |-> [content |-> <<>>, mtime |-> 0]]
    /\ parsed_file_cache = EmptyMap
    /\ cache_stats = NoStats
    /\ clock = 0
    /\ today = 0
    /\ pc = "save"
    /\ out = [first |-> <<>>, x |-> Ok(<<>>)]
    /\ arg \in SaveInputs

SaveFirst ==
    /\ pc = "save"
    /\ \E sv \in {save_todo_log(parsed_file_cache, arg)} :
         /\ fs' = sv.fs
         /\ parsed_file_cache' = sv.cache
         /\ out' = [out EXCEPT !.first = sv.fs[sv.file].content]
    /\ pc' = "read"
    /\ UNCHANGED <<cache_stats, clock, today, arg>>

ReadBack ==
    /\ pc = "read"
    /\ \E rd \in {read_cur_todo_log} :
         /\ parsed_file_cache' = rd.cache
         /\ cache_stats' = rd.stats
         /\ out' = [out EXCEPT !.x = rd.res]
         /\ pc' = IF rd.res.ok THEN "save again" ELSE "raised"
    /\ UNCHANGED <<fs, clock, today, arg>>

SaveAgain ==
    /\ pc = "save again"
    /\ \E sv \in {save_todo_log(parsed_file_cache, out.x.v)} :
         /\ fs' = sv.fs
         /\ parsed_file_cache' = sv.cache
    /\ pc' = "saved again"
    /\ UNCHANGED <<cache_stats, clock, today, out, arg>>

NextSave == SaveFirst \/ ReadBack \/ SaveAgain

SpecSave == InitSave /\ [][NextSave]_vars

(* ------------------------------------------------------------------ *)
(* The weekly aggregate: week-time in a directory of earlier logs     *)
(* ------------------------------------------------------------------ *)
(* what a log holds after a session: nothing when every item was deleted,
   else the lines save_todo_log wrote *)
LogContents ==
    { <<>>,
      serialize_todos(<<TodoItem(<<"a">>, 1, TRUE, <<>>)>>, FALSE),
      serialize_todos(<<TodoItem(<<"a">>, 1, FALSE, <<>>),
                        TodoItem(<<"b">>, 2, TRUE, <<"t">>)>>, FALSE) }

(* the days that may have a log: six days and one day before the first day
   of the run, and that day *)
LogDays == {-6, -1, 0}

InitWeek ==
    /\ fs \in {Put(logs, Master, [content |-> LineA, mtime |-> 0]) :
                  logs \in UNION {[{LogFile(d) : d \in days} ->
                                      [content : LogContents, mtime : {0}]] :
                                  days \in SUBSET LogDays}}
    /\ parsed_file_cache = EmptyMap
    /\ cache_stats = NoStats
    /\ clock = TicksPerSec
    /\ today = 0
    /\ pc = "repl"
    /\ out = [op |-> "none", err |-> "none", res |-> Raise("none")]
    /\ arg = <<>>

(* the week-time command *)
WeekTime ==
    /\ pc = "repl"
    /\ CanFetch
    /\ parsed_file_cache' = week_cache
    /\ cache_stats' = week_stats
    /\ out' = [op |-> "week-time", err |-> print_week_time(calc_last_week_time),
               res |-> calc_last_week_time]
    /\ UNCHANGED <<fs, clock, today, pc, arg>>

NextWeek == WeekTime \/ DayChange

SpecWeek == InitWeek /\ [][NextWeek]_vars

(* ------------------------------------------------------------------ *)
(* Tag statistics on their own: gather_tags of a list                 *)
(* ------------------------------------------------------------------ *)
(* items with no tag, a tag, and the tag that is spelled like the key of
   the untagged ones, finished or not *)
TagItems ==
    {TodoItem(<<"a">>, d, f, t) :
        d \in {5, 10}, f \in BOOLEAN, t \in {<<>>, <<"x">>, Untagged}}

(* [("A",10,true,""), ("B",5,true,"x"), ("C",7,false,"x")] *)
TagExample ==
    << TodoItem(<<"A">>, 10, TRUE, <<>>), TodoItem(<<"B">>, 5, TRUE, <<"x">>),
       TodoItem(<<"C">>, 7, FALSE, <<"x">>) >>

TagInputs == UNION {[1..n -> TagItems] : n \in 0..2} \cup {TagExample}

InitTags ==
    /\ fs = EmptyMap
    /\ parsed_file_cache = EmptyMap
    /\ cache_stats = NoStats
    /\ clock = 0
    /\ today = 0
    /\ pc = "tags"
    /\ out = [cnt |-> EmptyMap, time |-> EmptyMap]
    /\ arg \in TagInputs

GatherTags ==
    /\ pc = "tags"
    /\ out' = gather_tags(arg)
    /\ pc' = "gathered"
    /\ UNCHANGED <<fs, parsed_file_cache, cache_stats, clock, today, arg>>

NextTags == GatherTags

SpecTags == InitTags /\ [][NextTags]_vars

(* ------------------------------------------------------------------ *)
(* The log parser on its own: read_todo_lines of a sequence of lines  *)
(* ------------------------------------------------------------------ *)
(* "###" *)
LineMarker == <<"#", "#", "#", "\n">>

(* "### x": a marker followed by text *)
LineMarkerText == <<"#", "#", "#", " ", "x", "\n">>

(* "# a": an item line cut short *)
LineCut == <<"#", " ", "a", "\n">>

(* " # a (1m)": an item line that is indented *)
LineIndented == <<" ">> \o LineA

(* "#a (1m)": the first token is not '#' *)
LineGlued == <<"#", "a", " ", "(", "1", "m", ")", "\n">>

(* "# b (-1m)" *)
LineNegative == <<"#", " ", "b", " ", "(", "-", "1", "m", ")", "\n">>

(* the lines tried: items, markers, the empty line, ordinary comments and
   lines that start like an item and are none *)
ParseLines ==
    { LineA, LineD, LineMarker, LineMarkerText, <<"\n">>,
      <<"x", " ">> \o LineA, <<"#", "#", "#", "#", "\n">>,
      LineCut, LineIndented, LineGlued, LineNegative }

ParseInputs == UNION {[1..n -> ParseLines] : n \in 0..MaxLines}

InitParse ==
    /\ fs = EmptyMap
    /\ parsed_file_cache = EmptyMap
    /\ cache_stats = NoStats
    /\ clock = 0
    /\ today = 0
    /\ pc = "lines"
    /\ out = Raise("none")
    /\ arg \in ParseInputs

ReadLines ==
    /\ pc = "lines"
    /\ out' = read_todo_lines(arg)
    /\ pc' = "read"
    /\ UNCHANGED <<fs, parsed_file_cache, cache_stats, clock, today, arg>>

NextParse == ReadLines

SpecParse == InitParse /\ [][NextParse]_vars


(* ------------------------------------------------------------------ *)
(* Claims                                                             *)
(* ------------------------------------------------------------------ *)
(* the parse of a text, and of a file's current content *)
ParseOfText(content) == read_todo_lines(FileLines(content))

ParseOfFile(f) == ParseOfText(fs[f].content)

(* the index is no position 0..len-1 of the list *)
OutOfRange(todos, i) == i \notin 0..(Len(todos) - 1)

(* C1: whatever commands, saves and date changes came before, in a running
   process read_cur_todo_log returns the parse of the current content of
   today's log when that file exists, and of the master file otherwise.
   Checked under Spec. *)
C1_ReadReturnsParseOfFile ==
    pc \in {"main", "repl"} => read_cur_todo_log.res = ParseOfFile(CurFile)

(* C2: once save_todo_log has written a file, that file has no cache entry,
   so the first read of it afterwards is a miss that runs the parser and
   returns the parse of the newly written content.  Checked under Spec. *)
C2_SaveForcesReparse ==
    (pc \in {"main", "repl"} /\ out.file # NoFile) =>
        /\ out.file \notin DOMAIN parsed_file_cache
        /\ read_todo_file(out.file).miss
        /\ read_todo_file(out.file).calls = 1
        /\ read_todo_file(out.file).res = ParseOfFile(out.file)

(* a toggle-complete that loaded its list from the cache has saved it *)
C2_Witness ==
    /\ pc = "repl"
    /\ out.op = "toggle-complete"
    /\ out.file = LogFile(today)
    /\ cache_stats.hits > 0

(* C3: a fetch of a file that has no entry is a miss, runs the compute
   function once and stores what it returned; a fetch of a file that has an
   entry and was not modified since its last fetch is a hit that returns the
   stored list without running the compute function.  Checked under
   SpecCache. *)
C3_FirstMissThenHit ==
    [][\A f \in CacheFiles :
          Fetch(f) =>
            /\ f \notin DOMAIN parsed_file_cache =>
                 /\ out'.miss
                 /\ out'.calls = 1
                 /\ out'.res = ParseOfFile(f)
                 /\ out'.res.ok =>
                      /\ f \in DOMAIN parsed_file_cache'
                      /\ parsed_file_cache'[f].todos = out'.res.v
            /\ (f \in DOMAIN parsed_file_cache /\ f \notin DOMAIN arg) =>
                 /\ ~out'.miss
                 /\ out'.calls = 0
                 /\ out'.res = Ok(parsed_file_cache[f].todos)
      ]_vars

(* a second fetch of an unmodified file has been served from the cache *)
C3_Witness ==
    /\ pc = "cache"
    /\ out.op = "fetch"
    /\ ~out.miss
    /\ out.f \notin DOMAIN arg
    /\ cache_stats.misses = 1
    /\ cache_stats.hits = 1

(* C4: a fetch of a file that was touched after the parse the cache holds
   is a miss, at whatever moment after that parse the touch happened.
   Checked under SpecCache. *)
C4_TouchForcesMiss ==
    [][\A f \in CacheFiles :
          (/\ Fetch(f)
           /\ f \in DOMAIN parsed_file_cache
           /\ f \in DOMAIN arg
           /\ arg[f] > parsed_file_cache[f].time) => out'.miss
      ]_vars

(* the text of one line "# " + render(item) + newline per item *)
RECURSIVE SavedText(_)
SavedText(items) ==
    IF Len(items) = 0 THEN <<>>
    ELSE <<"#", " ">> \o TodoStr(Head(items)) \o <<"\n">>
             \o SavedText(Tail(items))

(* C5: after save_todo_log(items) the file written holds one line
   "# " + render(item) + newline per item, in list order, and nothing
   else: no earlier content, no display index.  Checked under Spec. *)
C5_SaveOverwrites ==
    out.file # NoFile => fs[out.file].content = SavedText(out.todos)

(* a delete has rewritten a log of two or more lines as a shorter one *)
C5_Witness ==
    /\ out.op = "delete"
    /\ out.file # NoFile
    /\ Len(out.todos) = 1

(* C6: save(items); x = read_cur_todo_log; save(x) leaves today's log with
   the bytes the first save wrote.  Checked under SpecSave. *)
C6_SaveReadSaveSameBytes ==
    pc = "saved again" => fs[LogFile(today)].content = out.first

(* an item C7 calls well-formed *)
WellFormedItem(item) ==
    /\ find(item.name, <<" ", "(">>) = 0
    /\ rstrip(item.name) = item.name
    /\ item.duration >= 0

(* C7: parsing "# " + render(item) gives back the name, duration, finished
   flag and tag of any well-formed item.  Checked under SpecCodec. *)
C7_RoundTrip ==
    (pc = "parsed" /\ WellFormedItem(arg)) => out.parsed = Ok(arg)

(* C8: toggle-complete, set-time, duplicate and delete raise IndexError
   whenever the index typed is an integer outside 0..len-1 of the list
   loaded, negative ones included.  Checked under Spec. *)
C8_BadIndexFails ==
    [][\A t \in IdxTokens :
          (/\ int(t).ok
           /\ read_cur_todo_log.res.ok
           /\ OutOfRange(read_cur_todo_log.res.v, int(t).v)
           /\ \/ ToggleComplete(<<t>>)
              \/ SetTime(<<t, <<"0">>>>)
              \/ Duplicate(<<t>>)
              \/ Delete(<<t>>)) => out'.err = "IndexError"
      ]_vars

(* C9: after a toggle-complete of index i in 0..len-1 that ran to its end,
   the list the next command loads, which is the parse of the log just
   saved, is the list loaded before with the finished flag of item i
   negated and nothing else changed.  Checked under Spec. *)
C9_ToggleNegatesFinished ==
    [][\A t \in IdxTokens :
          (/\ int(t).ok
           /\ read_cur_todo_log.res.ok
           /\ ~OutOfRange(read_cur_todo_log.res.v, int(t).v)
           /\ ToggleComplete(<<t>>)
           /\ out'.err = "none") =>
             ParseOfText(fs'[out'.file].content) =
                 Ok([read_cur_todo_log.res.v EXCEPT
                        ![int(t).v + 1].finished = ~@])
      ]_vars

(* the list with a copy of the item at position p put right after it *)
CopyAfter(todos, p) ==
    SubSeq(todos, 1, p) \o <<todos[p]>> \o SubSeq(todos, p + 1, Len(todos))

(* C10: whenever duplicate succeeds on index i, the resulting list is the
   old list with a copy of the item todos[i] right after that item.
   Checked under Spec. *)
C10_DuplicateInsertsAfterSource ==
    [][\A t \in IdxTokens :
          (/\ int(t).ok
           /\ read_cur_todo_log.res.ok
           /\ Duplicate(<<t>>)
           /\ out'.file # NoFile) =>
             out'.todos = CopyAfter(read_cur_todo_log.res.v,
                                    ListPos(read_cur_todo_log.res.v, int(t).v))
      ]_vars

(* the text typed after "new " *)
NewText(line) == SubSeq(line, 5, Len(line))

(* the text is a stored item line without its leading '#' *)
ItemTextWithoutMarker(text) ==
    /\ Len(text) > 0
    /\ text[1] # "#"
    /\ parse_todo_line(<<"#", " ">> \o text).ok

(* C11: the new command, given the text of a stored item line without the
   leading '#', saves the list loaded with the item parsed from that text
   appended and every earlier item as it was.  Checked under Spec. *)
C11_NewAppendsParsedItem ==
    [][\A line \in NewLines :
          (/\ ItemTextWithoutMarker(NewText(line))
           /\ read_cur_todo_log.res.ok
           /\ New(line)) =>
             /\ out'.file = LogFile(today)
             /\ out'.todos =
                    Append(read_cur_todo_log.res.v,
                           parse_todo_line(<<"#", " ">> \o NewText(line)).v)
             /\ fs'[LogFile(today)].content = SavedText(out'.todos)
      ]_vars

(* C12: once main has handed over to the session, the process ends only by
   the quit command: no error raised while a list is displayed or a command
   runs ends it, the empty list and the list of total duration zero
   included.  Checked under Spec. *)
C12_ErrorsDoNotEndSession ==
    (pc = "exited" /\ out.op # "main") => out.err = "SystemExit"

(* every item of the list has a duration of zero or more *)
NonNegative(todos) == \A k \in 1..Len(todos) : todos[k].duration >= 0

(* C13: in every state every item of the cached lists, of the list last
   displayed or saved and of every file on disk has a duration that is not
   negative.  Checked under Spec. *)
C13_DurationNeverNegative ==
    /\ NonNegative(out.todos)
    /\ \A f \in DOMAIN parsed_file_cache : NonNegative(parsed_file_cache[f].todos)
    /\ \A f \in DOMAIN fs : ParseOfFile(f).ok => NonNegative(ParseOfFile(f).v)

(* the quotient n/d, d > 0, lies within 0..100 *)
WithinPercent(q) == 0 <= q.n /\ q.n <= 100 * q.d

TotalDuration(todos) == sum([k \in 1..Len(todos) |-> todos[k].duration])

(* what C14 says of calc_percentage for one list *)
PercentagesAsClaimed(todos) ==
    /\ (Len(todos) > 0 /\ TotalDuration(todos) > 0) =>
           /\ calc_percentage(todos).ok
           /\ WithinPercent(calc_percentage(todos).v.tasks_pct)
           /\ WithinPercent(calc_percentage(todos).v.time_pct)
    /\ (Len(todos) = 0 \/ TotalDuration(todos) = 0) =>
           calc_percentage(todos) = Raise("ZeroDivisionError")

(* C14: for the current list of a running program, calc_percentage returns
   two percentages within 0..100 when the list is not empty and its total
   duration is positive, and raises the division error otherwise.  Checked
   under Spec. *)
C14_PercentagesWithinBounds ==
    (pc \in {"main", "repl"} /\ read_cur_todo_log.res.ok) =>
        PercentagesAsClaimed(read_cur_todo_log.res.v)

(* the errors of a command that did not get to change the list: a bad
   index, a bad parameter count, a parameter that is no integer, a new-item
   text that does not parse *)
CommandErrors == {"IndexError", "Exception", "ValueError", "AssertionError"}

(* some mutating command is the step taken *)
MutatingCommand ==
    \/ \E params \in OneParam : ToggleComplete(params)
    \/ \E params \in TwoParams : SetTime(params)
    \/ \E params \in OneParam : Duplicate(params)
    \/ \E params \in OneParam : Delete(params)
    \/ \E line \in NewLines : New(line)

(* what read_cur_todo_log returns after a step that left the directory and
   the date as they were: the list of the cache entry the step left, unless
   there is none or the file is newer than it *)
ReadAfterStep ==
    IF /\ CurFile \in DOMAIN parsed_file_cache'
       /\ ~FileIsNewer(fs[CurFile].mtime, parsed_file_cache'[CurFile].time)
    THEN Ok(parsed_file_cache'[CurFile].todos)
    ELSE ParseOfFile(CurFile)

(* C20: a mutating command that fails with one of the command errors
   leaves the directory as it was, today's log included, and the next
   read_cur_todo_log returns the list it returned before the command.
   Checked under Spec. *)
C20_FailedCommandChangesNothing ==
    [][(/\ out'.err \in CommandErrors
        /\ MutatingCommand) =>
           /\ fs' = fs
           /\ today' = today
           /\ read_cur_todo_log.res.ok
           /\ ReadAfterStep = read_cur_todo_log.res
      ]_vars

(* a duplicate of an index past the end has failed on a list that was
   loaded from the cache *)
C20_Witness ==
    /\ pc = "repl"
    /\ out.op = "duplicate"
    /\ out.err = "IndexError"
    /\ LogFile(today) \in DOMAIN fs
    /\ LogFile(today) \in DOMAIN parsed_file_cache
    /\ Len(parsed_file_cache[LogFile(today)].todos) = 2

(* C19: the hit and miss counters never decrease; a fetch that returns adds
   one to misses on a miss and one to hits on a hit and leaves the other
   counter alone; clear_file_in_cache and reset_file_cache leave both
   counters as they are; after reset_file_cache no file has an entry and a
   fetch of any file would be a miss.  Checked under SpecCache. *)
C19_CountersOnlyGrow ==
    [][/\ cache_stats'.hits >= cache_stats.hits
       /\ cache_stats'.misses >= cache_stats.misses
       /\ \A f \in CacheFiles :
             (Fetch(f) /\ out'.res.ok) =>
                cache_stats' =
                    IF out'.miss
                    THEN [hits |-> cache_stats.hits,
                          misses |-> cache_stats.misses + 1]
                    ELSE [hits |-> cache_stats.hits + 1,
                          misses |-> cache_stats.misses]
       /\ \A f \in CacheFiles : ClearFile(f) => cache_stats' = cache_stats
       /\ ResetCache =>
             /\ cache_stats' = cache_stats
             /\ DOMAIN parsed_file_cache' = {}
             /\ \A f \in CacheFiles : IsMiss(f)'
      ]_vars

(* a reset has emptied a cache that had served a hit and a miss *)
C19_Witness ==
    /\ pc = "cache"
    /\ out.op = "reset"
    /\ parsed_file_cache = EmptyMap
    /\ cache_stats.hits > 0
    /\ cache_stats.misses > 0

(* the positions of the finished items that carry the key *)
FinishedUnder(todos, key) ==
    {k \in 1..Len(todos) :
        todos[k].finished /\ key = (IF todos[k].tag = <<>> THEN Untagged
                                    ELSE todos[k].tag)}

RECURSIVE SumOver(_, _)
SumOver(fn, keys) ==
    IF keys = {} THEN 0
    ELSE LET k == CHOOSE x \in keys : TRUE
         IN  fn[k] + SumOver(fn, keys \ {k})

(* C16: the keys of both tables of gather_tags are the tags of the finished
   items, the empty tag standing as "[untagged]"; the count of a key is the
   number of finished items under it and its minutes are the sum of their
   durations; the counts add up to the number of finished items.  Checked
   under SpecTags. *)
C16_TagsCountFinishedOnly ==
    pc = "gathered" =>
        /\ DOMAIN out.cnt = {key \in {Untagged} \cup {arg[k].tag : k \in 1..Len(arg)} :
                                FinishedUnder(arg, key) # {}}
        /\ DOMAIN out.time = DOMAIN out.cnt
        /\ \A key \in DOMAIN out.cnt :
              /\ out.cnt[key] = Cardinality(FinishedUnder(arg, key))
              /\ out.time[key] =
                    SumOver([k \in 1..Len(arg) |-> arg[k].duration],
                            FinishedUnder(arg, key))
        /\ SumOver(out.cnt, DOMAIN out.cnt) =
              Cardinality({k \in 1..Len(arg) : arg[k].finished})

(* the tables of [("A",10,true,""), ("B",5,true,"x"), ("C",7,false,"x")] *)
C16_Witness ==
    /\ pc = "gathered"
    /\ arg = TagExample
    /\ out.cnt = (Untagged :> 1) @@ (<<"x">> :> 1)
    /\ out.time = (Untagged :> 10) @@ (<<"x">> :> 5)

(* the positions of the lines whose first token is '#' and that have an
   even number of lines with first token '###' before them *)
ItemPositions(lines) ==
    {k \in 1..Len(lines) :
        /\ FirstToken(lines[k]) = <<"#">>
        /\ Cardinality({j \in 1..(k - 1) :
                           FirstToken(lines[j]) = <<"#", "#", "#">>}) % 2 = 0}

(* the items of the lines at the positions, in the order of the lines *)
RECURSIVE ItemsAt(_, _, _)
ItemsAt(lines, positions, k) ==
    IF k > Len(lines) THEN <<>>
    ELSE (IF k \in positions THEN <<parse_todo_line(lines[k]).v>> ELSE <<>>)
             \o ItemsAt(lines, positions, k + 1)

(* C17: when every line that counts as an item parses, read_todo_lines
   returns the items of exactly the lines with first token '#' that have an
   even number of '###' lines before them, in file order; the lines after
   an odd '###' are dropped and raise nothing.  Checked under SpecParse. *)
C17_ItemsOutsideBlockComments ==
    (/\ pc = "read"
     /\ \A k \in ItemPositions(arg) : parse_todo_line(arg[k]).ok) =>
        out = Ok(ItemsAt(arg, ItemPositions(arg), 1))

(* a block comment that is never closed has swallowed an item line cut
   short and an item line *)
C17_Witness ==
    /\ pc = "read"
    /\ arg = <<LineMarkerText, LineCut, LineA>>
    /\ out = Ok(<<>>)

(* the duration group of the grammar: digits and a final m *)
DurationText(t) ==
    /\ Len(t) >= 2
    /\ t[Len(t)] = "m"
    /\ \A k \in 1..(Len(t) - 1) : IsDigit(t[k])

(* the part of an item line from its name on: name, " (", duration, ")",
   whitespace, and nothing or a tag *)
NameOnText(t) ==
    /\ find(t, <<" ", "(">>) > 0
    /\ find(split1(t, <<" ", "(">>)[2], <<")">>) > 0
    /\ DurationText(split1(split1(t, <<" ", "(">>)[2], <<")">>)[1])
    /\ \/ lstrip(split1(split1(t, <<" ", "(">>)[2], <<")">>)[2]) = <<>>
       \/ Head(lstrip(split1(split1(t, <<" ", "(">>)[2], <<")">>)[2])) = "%"

(* the line satisfies the item grammar:
   "#" WS* ["DONE" WS*] name WS* "(" duration "m" ")" WS* ["%" tag] *)
SatisfiesGrammar(line) ==
    /\ Len(line) > 0
    /\ line[1] = "#"
    /\ \/ NameOnText(lstrip(Tail(line)))
       \/ /\ Len(lstrip(Tail(line))) >= 4
          /\ SubSeq(lstrip(Tail(line)), 1, 4) = <<"D", "O", "N", "E">>
          /\ NameOnText(lstrip(SubSeq(lstrip(Tail(line)), 5,
                                      Len(lstrip(Tail(line))))))

(* C18: read_todo_lines raises only when some line outside the block
   comments with first token '#' does not satisfy the item grammar; when
   all such lines satisfy it, it returns one item for each of them,
   whatever the other lines are.  Checked under SpecParse. *)
C18_OnlyItemLinesFail ==
    pc = "read" =>
        /\ ~out.ok => \E k \in ItemPositions(arg) : ~SatisfiesGrammar(arg[k])
        /\ (\A k \in ItemPositions(arg) : SatisfiesGrammar(arg[k])) =>
              (out.ok /\ Len(out.v) = Cardinality(ItemPositions(arg)))

(* an empty line, a comment that starts with '#a', and an item line cut
   short: the read has failed on the last *)
C18_Witness ==
    /\ pc = "read"
    /\ arg = <<<<"\n">>, LineGlued, LineCut>>
    /\ out = Raise("IndexError")

(* the logs that exist among those of the seven days up to today *)
LogsOfTheWeek == {LogFile(today - i) : i \in 0..6} \cap DOMAIN fs

RECURSIVE SumOfFiles(_, _)
SumOfFiles(F(_), files) ==
    IF files = {} THEN 0
    ELSE LET f == CHOOSE x \in files : TRUE
         IN  F(f) + SumOfFiles(F, files \ {f})

CompletedIn(f) == calc_time(ParseOfFile(f).v).completed

TotalIn(f) == calc_time(ParseOfFile(f).v).total

(* C15: calc_last_week_time returns as day count the number of logs that
   exist among those of the seven days up to today, whatever they hold, and
   as completed and total minutes the sums of calc_time over those logs.
   Checked under SpecWeek. *)
C15_WeekCountsExistingLogs ==
    [][(WeekTime /\ out'.res.ok) =>
          /\ out'.res.v.days = Cardinality(LogsOfTheWeek)
          /\ out'.res.v.completed = SumOfFiles(CompletedIn, LogsOfTheWeek)
          /\ out'.res.v.total = SumOfFiles(TotalIn, LogsOfTheWeek)
      ]_vars

====
